---- MODULE Spec2Model ----
(***************************************************************************)
(* Model of tray.py: the ServerManager process supervisor (start / stop),  *)
(* the tray menu handlers that call it (Start, Stop, Restart, Exit) and    *)
(* the background thread of Application._delayed_start.                    *)
(*                                                                         *)
(* Each thread executes start() and stop() statement by statement, so      *)
(* that the menu thread and the background thread can interleave.  Child   *)
(* processes are numbered 1..spawned in the order subprocess.Popen created *)
(* them; 0 stands for None.  External calls that may fail (Popen,          *)
(* terminate, wait, kill) either return or raise.  The argument file is    *)
(* a sequence of characters that ArgumentManager.read_args strips and      *)
(* tokenizes as shlex.split does.                                          *)
(***************************************************************************)
EXTENDS Integers, FiniteSets, Sequences, TLC

\* Bounds of the model.
MaxProcs == 3
MaxOps == 3
MaxText == 3
MaxVal == 3

\* GetLastError() after CreateMutexW
ERROR_SUCCESS == 0
ERROR_ACCESS_DENIED == 5
ERROR_ALREADY_EXISTS == 183

None == 0
Threads == {"menu", "bg"}

VARIABLES
    process,    \* ServerManager.process: None or the Popen handle of a child
    alive,      \* children that have not exited (poll() is None)
    spawned,    \* number of children created by subprocess.Popen so far
    exeExists,  \* self.exe_path.exists()
    pc,         \* per thread: the statement it executes next
    op,         \* per thread: the handler it runs (start, stop, restart, exit, delayed)
    h,          \* per thread: the Popen object created but not yet stored
    pending,    \* per thread: an exception raised inside the TimeoutExpired handler
    out,        \* per thread: how the current start()/stop() call ended
    fx,         \* per thread: what the current call did (popups, requests, reads)
    snap,       \* per thread: process and the previous call, as the current call began
    lastCall,   \* the last start()/stop() call that finished
    app,        \* running, icon_stopped (icon.stop() called), terminated
    nops,       \* number of menu items selected so far
    failed,     \* children whose terminate(), kill() or wait() raised
    argFile,    \* arguments.txt: whether it exists, its text, whether it is UTF-8
    cmd,        \* per thread: the local `cmd` of start()
    reg,        \* the value named APP_NAME under the Run key of the registry
    hist,       \* the AutoStartManager calls made since the registry was last edited
    inst2       \* a second launch of the application: Application.__init__ and run

vars == <<process, alive, spawned, exeExists, pc, op, h, pending, out, fx,
          snap, lastCall, app, nops, failed, argFile, cmd, reg, hist, inst2>>

NoFx == [warn |-> FALSE, err |-> FALSE, term |-> FALSE, kill |-> FALSE,
         read |-> FALSE, spawn |-> FALSE, parse |-> FALSE]
NoCall == [kind |-> "none", out |-> "none", pid |-> None, argc |-> 0]

\* arguments.txt as ensure_exists creates it.
EmptyFile == [exists |-> TRUE, text |-> <<>>, utf8 |-> TRUE]
NoFile == [exists |-> FALSE, text |-> <<>>, utf8 |-> TRUE]
NoSnap == [proc |-> None, prev |-> NoCall, file |-> NoFile]

\* No value named APP_NAME under the Run key.
NoReg == [exists |-> FALSE, str |-> TRUE, val |-> <<>>]

\* exe_cmd, the launch command AutoStartManager is constructed with.
ExeCmd == <<"u", "x">>

\* The registry values: absent, a value that is not a string (REG_DWORD,
\* REG_BINARY), or a string of at most MaxVal characters.
RegChars == {"u", "x"}
RegTexts == UNION {[1..n -> RegChars] : n \in 0..MaxVal}
RegStates ==
    {NoReg, [exists |-> TRUE, str |-> FALSE, val |-> <<>>]}
        \cup {[exists |-> TRUE, str |-> TRUE, val |-> v] : v \in RegTexts}

\* Contains without the offsets after the first.
Contains_Prefix(sub, s) ==
    Len(sub) <= Len(s) /\ SubSeq(s, 1, Len(sub)) = sub

\* Python's `sub in s` for strings.
Contains(sub, s) ==
    \E i \in 0..(Len(s) - Len(sub)) : SubSeq(s, i + 1, i + Len(sub)) = sub

\* is_enabled() when OpenKey and QueryValueEx succeed or report absence:
\* `self.exe_cmd in val`; a value that is no string raises TypeError, which
\* `except Exception` turns into False.
Enabled(r) == r.exists /\ r.str /\ Contains(ExeCmd, r.val)

\* The second launch has not happened.
NoInst == [pc |-> "none", active |-> FALSE, err |-> ERROR_SUCCESS, code |-> 0,
           sched |-> FALSE, child |-> FALSE, regread |-> FALSE]

\* str(self.exe_path), the first element of cmd
ExePath == <<"uxplay.exe">>

\* The characters of the argument file: a letter, whitespace, the double
\* quote and the backslash.
Chars == {"a", " ", "\"", "\\"}
Texts == UNION {[1..n -> Chars] : n \in 0..MaxText}

\* str.strip(): leading and trailing whitespace removed.
RECURSIVE LStrip(_)
LStrip(s) == IF s # <<>> /\ Head(s) = " " THEN LStrip(Tail(s)) ELSE s
RECURSIVE RStrip(_)
RStrip(s) ==
    IF s # <<>> /\ s[Len(s)] = " " THEN RStrip(SubSeq(s, 1, Len(s) - 1)) ELSE s
Strip(s) == RStrip(LStrip(s))

\* shlex.split(text) in POSIX mode, read character by character from
\* position i: st is the state of the lexer (ws between tokens, word inside
\* a token, dq inside double quotes, esc / dqesc after a backslash), cur
\* the token being built, toks the finished tokens.  ok is FALSE for the
\* ValueError of an unclosed quotation or a trailing backslash.
RECURSIVE Lex(_, _, _, _, _)
Lex(s, i, st, cur, toks) ==
    IF i > Len(s)
    THEN IF st = "ws" THEN [ok |-> TRUE, toks |-> toks]
         ELSE IF st = "word" THEN [ok |-> TRUE, toks |-> Append(toks, cur)]
         ELSE [ok |-> FALSE, toks |-> <<>>]
    ELSE LET c == s[i] IN
         IF st = "ws"
         THEN IF c = " " THEN Lex(s, i + 1, "ws", <<>>, toks)
              ELSE IF c = "\"" THEN Lex(s, i + 1, "dq", <<>>, toks)
              ELSE IF c = "\\" THEN Lex(s, i + 1, "esc", <<>>, toks)
              ELSE Lex(s, i + 1, "word", <<c>>, toks)
         ELSE IF st = "word"
         THEN IF c = " " THEN Lex(s, i + 1, "ws", <<>>, Append(toks, cur))
              ELSE IF c = "\"" THEN Lex(s, i + 1, "dq", cur, toks)
              ELSE IF c = "\\" THEN Lex(s, i + 1, "esc", cur, toks)
              ELSE Lex(s, i + 1, "word", Append(cur, c), toks)
         ELSE IF st = "dq"
         THEN IF c = "\"" THEN Lex(s, i + 1, "word", cur, toks)
              ELSE IF c = "\\" THEN Lex(s, i + 1, "dqesc", cur, toks)
              ELSE Lex(s, i + 1, "dq", Append(cur, c), toks)
         ELSE IF st = "dqesc"
         THEN IF c \in {"\"", "\\"}
              THEN Lex(s, i + 1, "dq", Append(cur, c), toks)
              ELSE Lex(s, i + 1, "dq", Append(Append(cur, "\\"), c), toks)
         ELSE Lex(s, i + 1, "word", Append(cur, c), toks)

ShlexSplit(s) == Lex(s, 1, "ws", <<>>, <<>>)

\* ArgumentManager.read_args on a file that can be decoded: the tokens, and
\* whether the parse error popup was shown.
ReadArgs(f) ==
    IF ~f.exists THEN [toks |-> <<>>, err |-> FALSE]
    ELSE LET text == Strip(f.text) IN
         IF text = <<>> THEN [toks |-> <<>>, err |-> FALSE]
         ELSE IF ShlexSplit(text).ok
         THEN [toks |-> ShlexSplit(text).toks, err |-> FALSE]
         ELSE [toks |-> <<>>, err |-> TRUE]

StartPcs == {"start_check", "start_poll", "start_exists", "start_read",
             "start_popen", "start_assign", "start_ret", "start_raised"}
StopPcs == {"stop_check", "stop_poll", "stop_term", "stop_wait", "stop_kill",
            "stop_killwait", "stop_finally", "stop_ret", "stop_raised"}
RestPcs == {"idle", "sleep", "done"}
AutoPcs == {"ise_read", "enable", "disable"}

\* poll() is None
Running(p) == p \in alive

\* `self.process and self.process.poll() is None`
TrackedAlive == process # None /\ Running(process)

\* The threads that may still call Popen in the handler they are running.
MaySpawn == {t \in Threads :
                \/ pc[t] = "sleep"
                \/ pc[t] \in {"start_check", "start_poll", "start_exists", "start_read",
                              "start_popen"}
                \/ (op[t] = "restart" /\ pc[t] \in StopPcs \ {"stop_raised"})}

Init ==
    /\ process = None
    /\ alive = {}
    /\ spawned = 0
    /\ exeExists \in BOOLEAN
    /\ pc = [t \in Threads |-> IF t = "bg" THEN "sleep" ELSE "idle"]
    /\ op = [t \in Threads |-> "none"]
    /\ h = [t \in Threads |-> None]
    /\ pending = [t \in Threads |-> FALSE]
    /\ out = [t \in Threads |-> "none"]
    /\ fx = [t \in Threads |-> NoFx]
    /\ snap = [t \in Threads |-> NoSnap]
    /\ lastCall = NoCall
    /\ app = "running"
    /\ nops = 0
    /\ failed = {}
    /\ argFile = EmptyFile
    /\ cmd = [t \in Threads |-> <<>>]
    /\ reg = NoReg
    /\ hist = <<>>
    /\ inst2 = NoInst

\* A thread enters start() or stop(): first statement `first`, previous
\* finished call `prev`.
Enter(t, first, prev) ==
    /\ pc' = [pc EXCEPT ![t] = first]
    /\ h' = [h EXCEPT ![t] = None]
    /\ pending' = [pending EXCEPT ![t] = FALSE]
    /\ out' = [out EXCEPT ![t] = "none"]
    /\ fx' = [fx EXCEPT ![t] = NoFx]
    /\ snap' = [snap EXCEPT ![t] = [proc |-> process, prev |-> prev,
                                     file |-> argFile]]
    /\ cmd' = [cmd EXCEPT ![t] = <<>>]

\* A thread leaves its handler.
Leave(t, to) ==
    /\ pc' = [pc EXCEPT ![t] = to]
    /\ h' = [h EXCEPT ![t] = None]
    /\ pending' = [pending EXCEPT ![t] = FALSE]
    /\ out' = [out EXCEPT ![t] = "none"]
    /\ fx' = [fx EXCEPT ![t] = NoFx]
    /\ snap' = [snap EXCEPT ![t] = NoSnap]
    /\ cmd' = [cmd EXCEPT ![t] = <<>>]

\* A menu item is selected: pystray runs the callback on the menu thread.
Select(o, first) ==
    /\ app = "running"
    /\ pc["menu"] = "idle"
    /\ nops < MaxOps
    /\ nops' = nops + 1
    /\ op' = [op EXCEPT !["menu"] = o]
    /\ Enter("menu", first, lastCall)
    /\ UNCHANGED <<process, alive, spawned, exeExists, lastCall, app>>
    /\ UNCHANGED <<failed, argFile>>
    /\ UNCHANGED <<reg, hist, inst2>>

MenuStart ==
    /\ spawned + Cardinality(MaySpawn) < MaxProcs
    /\ Select("start", "start_check")

MenuStop == Select("stop", "stop_check")

MenuRestart ==
    /\ spawned + Cardinality(MaySpawn) < MaxProcs
    /\ Select("restart", "stop_check")

MenuExit == Select("exit", "stop_check")

\* Application._delayed_start: time.sleep(3) is over, start() is called.
DelayedStart ==
    /\ app # "terminated"
    /\ pc["bg"] = "sleep"
    /\ op' = [op EXCEPT !["bg"] = "delayed"]
    /\ Enter("bg", "start_check", lastCall)
    /\ UNCHANGED <<process, alive, spawned, exeExists, lastCall, app, nops>>
    /\ UNCHANGED <<failed, argFile>>
    /\ UNCHANGED <<reg, hist, inst2>>

\* A thread at statement `at`, while the interpreter is alive.
At(t, at) == app # "terminated" /\ pc[t] = at

Goto(t, to) == pc' = [pc EXCEPT ![t] = to]

\* The call ends with result r: the thread is about to return.
Return(t, to, r) ==
    /\ pc' = [pc EXCEPT ![t] = to]
    /\ out' = [out EXCEPT ![t] = r]

----
\* ServerManager.start

\* `if self.process ...`
StartCheck(t) ==
    /\ At(t, "start_check")
    /\ Goto(t, IF process = None THEN "start_exists" ELSE "start_poll")
    /\ UNCHANGED <<process, alive, spawned, exeExists, op, h, pending, out, fx,
                   snap, lastCall, app, nops>>
    /\ UNCHANGED <<failed, argFile, cmd>>
    /\ UNCHANGED <<reg, hist, inst2>>

\* StartPoll without the liveness test: a stored handle never stops start().
StartPoll_NoLiveness(t) ==
    /\ At(t, "start_poll")
    /\ Goto(t, "start_exists")
    /\ UNCHANGED <<process, alive, spawned, exeExists, op, h, pending, out, fx,
                   snap, lastCall, app, nops>>
    /\ UNCHANGED <<failed, argFile, cmd>>
    /\ UNCHANGED <<reg, hist, inst2>>

\* `... and self.process.poll() is None:` then the warning and return
StartPoll(t) ==
    /\ At(t, "start_poll")
    /\ IF process = None
       THEN \* AttributeError: stop() on the other thread cleared the attribute
            /\ Goto(t, "start_raised")
            /\ UNCHANGED <<out, fx>>
       ELSE IF Running(process)
       THEN /\ Return(t, "start_ret", "warned")
            /\ fx' = [fx EXCEPT ![t].warn = TRUE]
       ELSE /\ Goto(t, "start_exists")
            /\ UNCHANGED <<out, fx>>
    /\ UNCHANGED <<process, alive, spawned, exeExists, op, h, pending, snap,
                   lastCall, app, nops>>
    /\ UNCHANGED <<failed, argFile, cmd>>
    /\ UNCHANGED <<reg, hist, inst2>>

\* StartExists without the existence test.
StartExists_NoTest(t) ==
    /\ At(t, "start_exists")
    /\ Goto(t, "start_read")
    /\ UNCHANGED <<process, alive, spawned, exeExists, op, h, pending, out, fx,
                   snap, lastCall, app, nops>>
    /\ UNCHANGED <<failed, argFile, cmd>>
    /\ UNCHANGED <<reg, hist, inst2>>

\* `if not self.exe_path.exists():` show_error, return
StartExists(t) ==
    /\ At(t, "start_exists")
    /\ IF exeExists
       THEN /\ Goto(t, "start_read")
            /\ UNCHANGED <<out, fx>>
       ELSE /\ Return(t, "start_ret", "missing")
            /\ fx' = [fx EXCEPT ![t].err = TRUE]
    /\ UNCHANGED <<process, alive, spawned, exeExists, op, h, pending, snap,
                   lastCall, app, nops>>
    /\ UNCHANGED <<failed, argFile, cmd>>
    /\ UNCHANGED <<reg, hist, inst2>>

\* StartRead that reads the file once: after a spawn with arguments it
\* builds cmd without them.
StartRead_Cached(t) ==
    /\ At(t, "start_read")
    /\ Goto(t, "start_popen")
    /\ fx' = [fx EXCEPT ![t].read = TRUE]
    /\ cmd' = [cmd EXCEPT ![t] = IF lastCall.argc > 1 THEN ExePath
                                 ELSE ExePath \o ReadArgs(argFile).toks]
    /\ UNCHANGED <<process, alive, spawned, exeExists, op, h, pending, out,
                   snap, lastCall, app, nops>>
    /\ UNCHANGED <<failed, argFile>>
    /\ UNCHANGED <<reg, hist, inst2>>

\* `cmd = [str(self.exe_path)] + self.arg_mgr.read_args()`
\* read_text raises for a file that is not UTF-8: line 148 is outside the
\* try, so the exception leaves start().
StartRead(t) ==
    /\ At(t, "start_read")
    /\ IF argFile.exists /\ ~argFile.utf8
       THEN /\ Goto(t, "start_raised")
            /\ fx' = [fx EXCEPT ![t].read = TRUE]
            /\ UNCHANGED cmd
       ELSE /\ Goto(t, "start_popen")
            /\ fx' = [fx EXCEPT ![t].read = TRUE,
                                ![t].parse = ReadArgs(argFile).err]
            /\ cmd' = [cmd EXCEPT ![t] = ExePath \o ReadArgs(argFile).toks]
    /\ UNCHANGED <<process, alive, spawned, exeExists, op, h, pending, out,
                   snap, lastCall, app, nops>>
    /\ UNCHANGED <<failed, argFile>>
    /\ UNCHANGED <<reg, hist, inst2>>

\* StartPopen whose `except` logs the failure but shows no popup.
StartPopen_Silent(t) ==
    /\ At(t, "start_popen")
    /\ \/ /\ spawned < MaxProcs
          /\ spawned' = spawned + 1
          /\ alive' = alive \cup {spawned + 1}
          /\ h' = [h EXCEPT ![t] = spawned + 1]
          /\ fx' = [fx EXCEPT ![t].spawn = TRUE]
          /\ Goto(t, "start_assign")
          /\ UNCHANGED out
       \/ /\ Return(t, "start_ret", "spawnfail")
          /\ UNCHANGED <<spawned, alive, h, fx>>
    /\ UNCHANGED <<process, exeExists, op, pending, snap, lastCall, app, nops>>
    /\ UNCHANGED <<failed, argFile, cmd>>
    /\ UNCHANGED <<reg, hist, inst2>>

\* `subprocess.Popen(cmd, ...)`: a child is created, or Popen raises and the
\* handler shows the error.
StartPopen(t) ==
    /\ At(t, "start_popen")
    /\ \/ /\ spawned < MaxProcs
          /\ spawned' = spawned + 1
          /\ alive' = alive \cup {spawned + 1}
          /\ h' = [h EXCEPT ![t] = spawned + 1]
          /\ fx' = [fx EXCEPT ![t].spawn = TRUE]
          /\ Goto(t, "start_assign")
          /\ UNCHANGED out
       \/ /\ Return(t, "start_ret", "spawnfail")
          /\ fx' = [fx EXCEPT ![t].err = TRUE]
          /\ UNCHANGED <<spawned, alive, h>>
    /\ UNCHANGED <<process, exeExists, op, pending, snap, lastCall, app, nops>>
    /\ UNCHANGED <<failed, argFile, cmd>>
    /\ UNCHANGED <<reg, hist, inst2>>

\* `self.process = ...`
StartAssign(t) ==
    /\ At(t, "start_assign")
    /\ process' = h[t]
    /\ Return(t, "start_ret", "spawned")
    /\ UNCHANGED <<alive, spawned, exeExists, op, h, pending, fx, snap,
                   lastCall, app, nops>>
    /\ UNCHANGED <<failed, argFile, cmd>>
    /\ UNCHANGED <<reg, hist, inst2>>

\* start() returns to its caller: the menu callback or the thread ends.
StartRet(t) ==
    /\ At(t, "start_ret")
    /\ lastCall' = [kind |-> "start", out |-> out[t], pid |-> h[t],
                    argc |-> IF fx[t].spawn THEN Len(cmd[t]) ELSE 0]
    /\ Leave(t, IF t = "bg" THEN "done" ELSE "idle")
    /\ UNCHANGED <<process, alive, spawned, exeExists, op, app, nops>>
    /\ UNCHANGED <<failed, argFile>>
    /\ UNCHANGED <<reg, hist, inst2>>

----
\* ServerManager.stop

\* StopCheck without the None test: `if not (self.process.poll() is None)`.
StopCheck_NoNoneTest(t) ==
    /\ At(t, "stop_check")
    /\ Goto(t, "stop_poll")
    /\ UNCHANGED <<process, alive, spawned, exeExists, op, h, pending, out, fx,
                   snap, lastCall, app, nops>>
    /\ UNCHANGED <<failed, argFile, cmd>>
    /\ UNCHANGED <<reg, hist, inst2>>

\* `if not (self.process ...`
StopCheck(t) ==
    /\ At(t, "stop_check")
    /\ IF process = None
       THEN Return(t, "stop_ret", "notrunning")
       ELSE Goto(t, "stop_poll") /\ UNCHANGED out
    /\ UNCHANGED <<process, alive, spawned, exeExists, op, h, pending, fx,
                   snap, lastCall, app, nops>>
    /\ UNCHANGED <<failed, argFile, cmd>>
    /\ UNCHANGED <<reg, hist, inst2>>

\* `... and self.process.poll() is None):` return
StopPoll(t) ==
    /\ At(t, "stop_poll")
    /\ IF process = None
       THEN Goto(t, "stop_raised") /\ UNCHANGED out
       ELSE IF Running(process)
       THEN Goto(t, "stop_term") /\ UNCHANGED out
       ELSE Return(t, "stop_ret", "notrunning")
    /\ UNCHANGED <<process, alive, spawned, exeExists, op, h, pending, fx,
                   snap, lastCall, app, nops>>
    /\ UNCHANGED <<failed, argFile, cmd>>
    /\ UNCHANGED <<reg, hist, inst2>>

\* `self.process.terminate()`: returns, or raises and `except Exception`
\* shows the error.
StopTerm(t) ==
    /\ At(t, "stop_term")
    /\ \/ /\ process # None
          /\ fx' = [fx EXCEPT ![t].term = TRUE]
          /\ Goto(t, "stop_wait")
          /\ UNCHANGED out
          /\ UNCHANGED failed
       \/ /\ fx' = [fx EXCEPT ![t].err = TRUE]
          /\ Return(t, "stop_finally", "error")
          /\ failed' = failed \cup ({process} \ {None})
    /\ UNCHANGED <<process, alive, spawned, exeExists, op, h, pending, snap,
                   lastCall, app, nops>>
    /\ UNCHANGED <<argFile, cmd>>
    /\ UNCHANGED <<reg, hist, inst2>>

\* `self.process.wait(timeout=3)`: the child has exited, or TimeoutExpired,
\* or another exception, which `except Exception` reports.
StopWait(t) ==
    /\ At(t, "stop_wait")
    /\ \/ /\ process # None /\ ~Running(process)
          /\ Return(t, "stop_finally", "clean")
          /\ UNCHANGED fx
          /\ UNCHANGED failed
       \/ /\ process # None /\ Running(process)
          /\ Goto(t, "stop_kill")
          /\ UNCHANGED <<out, fx>>
          /\ UNCHANGED failed
       \/ /\ fx' = [fx EXCEPT ![t].err = TRUE]
          /\ Return(t, "stop_finally", "error")
          /\ failed' = failed \cup ({process} \ {None})
    /\ UNCHANGED <<process, alive, spawned, exeExists, op, h, pending, snap,
                   lastCall, app, nops>>
    /\ UNCHANGED <<argFile, cmd>>
    /\ UNCHANGED <<reg, hist, inst2>>

\* `self.process.kill()` in the TimeoutExpired handler: an exception raised
\* here is not caught by the `except Exception` clause next to it.
StopKill(t) ==
    /\ At(t, "stop_kill")
    /\ \/ /\ process # None
          /\ fx' = [fx EXCEPT ![t].kill = TRUE]
          /\ Goto(t, "stop_killwait")
          /\ UNCHANGED pending
          /\ UNCHANGED failed
       \/ /\ pending' = [pending EXCEPT ![t] = TRUE]
          /\ Goto(t, "stop_finally")
          /\ failed' = failed \cup ({process} \ {None})
          /\ UNCHANGED fx
    /\ UNCHANGED <<process, alive, spawned, exeExists, op, h, out, snap,
                   lastCall, app, nops>>
    /\ UNCHANGED <<argFile, cmd>>
    /\ UNCHANGED <<reg, hist, inst2>>

\* StopKillWait that does not wait for the killed child to exit.
StopKillWait_NoWait(t) ==
    /\ At(t, "stop_killwait")
    /\ Return(t, "stop_finally", "forced")
    /\ UNCHANGED <<process, alive, spawned, exeExists, op, h, pending, fx, snap,
                   lastCall, app, nops>>
    /\ UNCHANGED <<failed, argFile, cmd>>
    /\ UNCHANGED <<reg, hist, inst2>>

\* `self.process.wait()`: blocks until the child has exited, or raises.
StopKillWait(t) ==
    /\ At(t, "stop_killwait")
    /\ \/ /\ process # None /\ ~Running(process)
          /\ Return(t, "stop_finally", "forced")
          /\ UNCHANGED pending
          /\ UNCHANGED failed
       \/ /\ pending' = [pending EXCEPT ![t] = TRUE]
          /\ Goto(t, "stop_finally")
          /\ failed' = failed \cup ({process} \ {None})
          /\ UNCHANGED out
    /\ UNCHANGED <<process, alive, spawned, exeExists, op, h, fx, snap,
                   lastCall, app, nops>>
    /\ UNCHANGED <<argFile, cmd>>
    /\ UNCHANGED <<reg, hist, inst2>>

\* StopFinally without the assignment.
StopFinally_NoClear(t) ==
    /\ At(t, "stop_finally")
    /\ Goto(t, IF pending[t] THEN "stop_raised" ELSE "stop_ret")
    /\ UNCHANGED <<process, alive, spawned, exeExists, op, h, pending, out, fx,
                   snap, lastCall, app, nops>>
    /\ UNCHANGED <<failed, argFile, cmd>>
    /\ UNCHANGED <<reg, hist, inst2>>

\* `finally: self.process = None`, then return or re-raise.
StopFinally(t) ==
    /\ At(t, "stop_finally")
    /\ process' = None
    /\ Goto(t, IF pending[t] THEN "stop_raised" ELSE "stop_ret")
    /\ UNCHANGED <<alive, spawned, exeExists, op, h, pending, out, fx, snap,
                   lastCall, app, nops>>
    /\ UNCHANGED <<failed, argFile, cmd>>
    /\ UNCHANGED <<reg, hist, inst2>>

\* stop() returns to its caller: the Stop callback ends, TrayIcon._restart
\* goes on to start(), TrayIcon._exit goes on to icon.stop().
StopRet(t) ==
    /\ At(t, "stop_ret")
    /\ lastCall' = [kind |-> "stop", out |-> out[t], pid |-> snap[t].proc,
                    argc |-> 0]
    /\ IF op[t] = "restart"
       THEN Enter(t, "start_check", lastCall')
       ELSE Leave(t, IF op[t] = "exit" THEN "icon_stop" ELSE "idle")
    /\ UNCHANGED <<process, alive, spawned, exeExists, op, app, nops>>
    /\ UNCHANGED <<failed, argFile>>
    /\ UNCHANGED <<reg, hist, inst2>>

----
\* An exception leaves start() or stop(): it ends the handler that made the
\* call (pystray logs it and the menu loop goes on; the thread of
\* _delayed_start ends).
Unwind(t) ==
    /\ app # "terminated"
    /\ pc[t] \in {"start_raised", "stop_raised"}
    /\ lastCall' = [kind |-> IF pc[t] = "start_raised" THEN "start" ELSE "stop",
                    out |-> "raised", pid |-> None, argc |-> 0]
    /\ Leave(t, IF t = "bg" THEN "done" ELSE "idle")
    /\ UNCHANGED <<process, alive, spawned, exeExists, op, app, nops>>
    /\ UNCHANGED <<failed, argFile>>
    /\ UNCHANGED <<reg, hist, inst2>>

\* TrayIcon._exit: `self.icon.stop()`
IconStop(t) ==
    /\ At(t, "icon_stop")
    /\ app' = "icon_stopped"
    /\ Goto(t, "idle")
    /\ UNCHANGED <<process, alive, spawned, exeExists, op, h, pending, out, fx,
                   snap, lastCall, nops>>
    /\ UNCHANGED <<failed, argFile, cmd>>
    /\ UNCHANGED <<reg, hist, inst2>>

\* Application.run: tray.run() has returned, the interpreter exits and the
\* daemon thread ends with it.
AppExit ==
    /\ app = "icon_stopped"
    /\ pc["menu"] = "idle"
    /\ app' = "terminated"
    /\ UNCHANGED <<process, alive, spawned, exeExists, pc, op, h, pending, out,
                   fx, snap, lastCall, nops>>
    /\ UNCHANGED <<failed, argFile, cmd>>
    /\ UNCHANGED <<reg, hist, inst2>>

\* A child exits: on its own, or after terminate() or kill().
ChildExit ==
    /\ \E p \in alive : alive' = alive \ {p}
    /\ UNCHANGED <<process, spawned, exeExists, pc, op, h, pending, out, fx,
                   snap, lastCall, app, nops>>
    /\ UNCHANGED <<failed, argFile, cmd>>
    /\ UNCHANGED <<reg, hist, inst2>>

\* uxplay.exe is removed from, or put back at, self.exe_path.
ExeChange ==
    /\ exeExists' = ~exeExists
    /\ UNCHANGED <<process, alive, spawned, pc, op, h, pending, out, fx, snap,
                   lastCall, app, nops>>
    /\ UNCHANGED <<failed, argFile, cmd>>
    /\ UNCHANGED <<reg, hist, inst2>>

----
\* ArgumentManager.ensure_exists and TrayIcon._open_args

\* Edit UxPlay Arguments is selected: _open_args calls ensure_exists.
MenuEditArgs == Select("editargs", "ens_check")

\* EnsureCheck without the test: the empty text is always written.
EnsureCheck_Always(t) ==
    /\ At(t, "ens_check")
    /\ Goto(t, "ens_write")
    /\ UNCHANGED <<process, alive, spawned, exeExists, op, h, pending, out, fx,
                   snap, lastCall, app, nops, failed, argFile, cmd>>
    /\ UNCHANGED <<reg, hist, inst2>>

\* `if not self.file_path.exists():`
EnsureCheck(t) ==
    /\ At(t, "ens_check")
    /\ Goto(t, IF argFile.exists THEN "open_file" ELSE "ens_write")
    /\ UNCHANGED <<process, alive, spawned, exeExists, op, h, pending, out, fx,
                   snap, lastCall, app, nops, failed, argFile, cmd>>
    /\ UNCHANGED <<reg, hist, inst2>>

\* `self.file_path.write_text("", encoding="utf-8")`
EnsureWrite(t) ==
    /\ At(t, "ens_write")
    /\ argFile' = EmptyFile
    /\ Goto(t, "open_file")
    /\ UNCHANGED <<process, alive, spawned, exeExists, op, h, pending, out, fx,
                   snap, lastCall, app, nops, failed, cmd>>
    /\ UNCHANGED <<reg, hist, inst2>>

\* `os.startfile(...)`: the editor opens, or the error is shown.
OpenFile(t) ==
    /\ At(t, "open_file")
    /\ Leave(t, "idle")
    /\ UNCHANGED <<process, alive, spawned, exeExists, op, lastCall, app, nops,
                   failed, argFile>>
    /\ UNCHANGED <<reg, hist, inst2>>

\* The user saves arguments.txt from the editor that _open_args opened, as
\* UTF-8 text or in another encoding, while no handler runs.
EditFile ==
    /\ \A t \in Threads : pc[t] \in {"idle", "sleep", "done"}
    /\ op["menu"] = "editargs"
    /\ \/ \E text \in Texts :
            argFile' = [exists |-> TRUE, text |-> text, utf8 |-> TRUE]
       \/ argFile' = [exists |-> TRUE, text |-> <<>>, utf8 |-> FALSE]
    /\ argFile' # argFile
    /\ UNCHANGED <<process, alive, spawned, exeExists, pc, op, h, pending, out,
                   fx, snap, lastCall, app, nops, failed, cmd>>
    /\ UNCHANGED <<reg, hist, inst2>>

\* The user deletes arguments.txt between two handlers.
DeleteFile ==
    /\ \A t \in Threads : pc[t] \in {"idle", "sleep", "done"}
    /\ argFile.exists
    /\ argFile' = NoFile
    /\ UNCHANGED <<process, alive, spawned, exeExists, pc, op, h, pending, out,
                   fx, snap, lastCall, app, nops, failed, cmd>>
    /\ UNCHANGED <<reg, hist, inst2>>

----
\* AutoStartManager

\* A call of AutoStartManager begins on the menu thread: the menu's
\* `checked` callback (is_enabled), its Autostart item (toggle), or a direct
\* call of enable() or disable().
AutoCall(o, first) ==
    /\ app = "running"
    /\ pc["menu"] = "idle"
    /\ nops < MaxOps
    /\ nops' = nops + 1
    /\ op' = [op EXCEPT !["menu"] = o]
    /\ pc' = [pc EXCEPT !["menu"] = first]
    /\ hist' = Append(hist, [call |-> o, before |-> Enabled(reg),
                             res |-> FALSE, fail |-> FALSE,
                             after |-> Enabled(reg), done |-> FALSE])
    /\ UNCHANGED <<process, alive, spawned, exeExists, h, pending, out, fx,
                   snap, lastCall, app, failed, argFile, cmd, reg, inst2>>

MenuChecked == AutoCall("checked", "ise_read")

MenuToggle == AutoCall("toggle", "ise_read")

CallEnable == AutoCall("enable", "enable")

CallDisable == AutoCall("disable", "disable")

\* IsEnabledRead that compares the stored value with exe_cmd for equality.
IsEnabledRead_Exact(t) ==
    /\ At(t, "ise_read")
    /\ LET res == reg.exists /\ reg.str /\ reg.val = ExeCmd
       IN /\ hist' = [hist EXCEPT ![Len(hist)].res = res,
                                  ![Len(hist)].fail = reg.exists /\ ~reg.str,
                                  ![Len(hist)].done = (op[t] = "checked")]
          /\ Goto(t, IF op[t] = "checked" THEN "idle"
                     ELSE IF res THEN "disable" ELSE "enable")
    /\ UNCHANGED <<process, alive, spawned, exeExists, op, h, pending, out, fx,
                   snap, lastCall, app, nops, failed, argFile, cmd, reg, inst2>>

\* is_enabled(): OpenKey and QueryValueEx give the value, report that there
\* is none (FileNotFoundError), or raise another error, which is logged;
\* toggle() then calls disable() or enable().
IsEnabledRead(t) ==
    /\ At(t, "ise_read")
    /\ \/ /\ hist' = [hist EXCEPT ![Len(hist)].res = Enabled(reg),
                                  ![Len(hist)].fail = reg.exists /\ ~reg.str,
                                  ![Len(hist)].done = (op[t] = "checked")]
          /\ Goto(t, IF op[t] = "checked" THEN "idle"
                     ELSE IF Enabled(reg) THEN "disable" ELSE "enable")
       \/ /\ hist' = [hist EXCEPT ![Len(hist)].res = FALSE,
                                  ![Len(hist)].fail = TRUE,
                                  ![Len(hist)].done = (op[t] = "checked")]
          /\ Goto(t, IF op[t] = "checked" THEN "idle" ELSE "enable")
    /\ UNCHANGED <<process, alive, spawned, exeExists, op, h, pending, out, fx,
                   snap, lastCall, app, nops, failed, argFile, cmd, reg, inst2>>

\* enable(): SetValueEx stores exe_cmd, or an error is logged.
Enable(t) ==
    /\ At(t, "enable")
    /\ \/ /\ reg' = [exists |-> TRUE, str |-> TRUE, val |-> ExeCmd]
          /\ hist' = [hist EXCEPT ![Len(hist)].after = Enabled(reg'),
                                  ![Len(hist)].done = TRUE]
       \/ /\ reg' = reg
          /\ hist' = [hist EXCEPT ![Len(hist)].fail = TRUE,
                                  ![Len(hist)].done = TRUE]
    /\ Goto(t, "idle")
    /\ UNCHANGED <<process, alive, spawned, exeExists, op, h, pending, out, fx,
                   snap, lastCall, app, nops, failed, argFile, cmd, inst2>>

\* Disable that logs and leaves the value in place.
Disable_NoDelete(t) ==
    /\ At(t, "disable")
    /\ hist' = [hist EXCEPT ![Len(hist)].done = TRUE]
    /\ Goto(t, "idle")
    /\ UNCHANGED <<process, alive, spawned, exeExists, op, h, pending, out, fx,
                   snap, lastCall, app, nops, failed, argFile, cmd, inst2, reg>>

\* disable(): DeleteValue removes the value or finds none
\* (FileNotFoundError), or another error is logged.
Disable(t) ==
    /\ At(t, "disable")
    /\ \/ /\ reg' = NoReg
          /\ hist' = [hist EXCEPT ![Len(hist)].after = Enabled(reg'),
                                  ![Len(hist)].done = TRUE]
       \/ /\ reg' = reg
          /\ hist' = [hist EXCEPT ![Len(hist)].fail = TRUE,
                                  ![Len(hist)].done = TRUE]
    /\ Goto(t, "idle")
    /\ UNCHANGED <<process, alive, spawned, exeExists, op, h, pending, out, fx,
                   snap, lastCall, app, nops, failed, argFile, cmd, inst2>>

\* The value is changed from outside (RegEdit, an installer) between two
\* calls.
RegEdit ==
    /\ app = "running"
    /\ pc["menu"] = "idle"
    /\ \E r \in RegStates \ {reg} : reg' = r
    /\ hist' = <<>>
    /\ UNCHANGED <<process, alive, spawned, exeExists, pc, op, h, pending, out,
                   fx, snap, lastCall, app, nops, failed, argFile, cmd, inst2>>

----
\* Application.__init__ and Application.run of a second launch

\* The program is launched again.
Launch2 ==
    /\ inst2.pc \in {"none", "exited"}
    /\ inst2' = [NoInst EXCEPT !.pc = "mutex"]
    /\ UNCHANGED <<process, alive, spawned, exeExists, pc, op, h, pending, out,
                   fx, snap, lastCall, app, nops, failed, argFile, cmd, reg,
                   hist>>

\* CreateMutexW(None, False, "Global\\UxPlayWindowsTrayMutex"): the first
\* instance holds the mutex until its process ends. With the mutex in place
\* the call returns a handle and ERROR_ALREADY_EXISTS, or it fails with
\* ERROR_ACCESS_DENIED when the caller has no right to the object (the
\* first instance runs under another account).
CreateMutex2 ==
    /\ inst2.pc = "mutex"
    /\ \/ /\ app # "terminated"
          /\ inst2' = [inst2 EXCEPT !.pc = "guard", !.active = TRUE,
                                    !.err = ERROR_ALREADY_EXISTS]
       \/ /\ app # "terminated"
          /\ inst2' = [inst2 EXCEPT !.pc = "guard", !.active = TRUE,
                                    !.err = ERROR_ACCESS_DENIED]
       \/ /\ app = "terminated"
          /\ inst2' = [inst2 EXCEPT !.pc = "guard", !.active = FALSE,
                                    !.err = ERROR_SUCCESS]
    /\ UNCHANGED <<process, alive, spawned, exeExists, pc, op, h, pending, out,
                   fx, snap, lastCall, app, nops, failed, argFile, cmd, reg,
                   hist>>

\* `if ctypes.windll.kernel32.GetLastError() == 183:`
Guard2 ==
    /\ inst2.pc = "guard"
    /\ inst2' = [inst2 EXCEPT !.pc = IF inst2.err = ERROR_ALREADY_EXISTS
                                     THEN "dialog" ELSE "construct"]
    /\ UNCHANGED <<process, alive, spawned, exeExists, pc, op, h, pending, out,
                   fx, snap, lastCall, app, nops, failed, argFile, cmd, reg,
                   hist>>

\* MessageBoxW returns when the user closes the dialog, then sys.exit(1).
Dialog2 ==
    /\ inst2.pc = "dialog"
    /\ inst2' = [inst2 EXCEPT !.pc = "exited", !.code = 1]
    /\ UNCHANGED <<process, alive, spawned, exeExists, pc, op, h, pending, out,
                   fx, snap, lastCall, app, nops, failed, argFile, cmd, reg,
                   hist>>

\* Paths, ArgumentManager, AutoStartManager, ServerManager and TrayIcon are
\* constructed.
Construct2 ==
    /\ inst2.pc = "construct"
    /\ inst2' = [inst2 EXCEPT !.pc = "run"]
    /\ UNCHANGED <<process, alive, spawned, exeExists, pc, op, h, pending, out,
                   fx, snap, lastCall, app, nops, failed, argFile, cmd, reg,
                   hist>>

\* Application.run: ensure_exists(), the thread of _delayed_start is
\* started, tray.run().
Run2 ==
    /\ inst2.pc = "run"
    /\ inst2' = [inst2 EXCEPT !.pc = "tray", !.sched = TRUE]
    /\ argFile' = IF argFile.exists THEN argFile ELSE EmptyFile
    /\ UNCHANGED <<process, alive, spawned, exeExists, pc, op, h, pending, out,
                   fx, snap, lastCall, app, nops, failed, cmd, reg, hist>>

\* _delayed_start of the second launch: its start() finds no tracked
\* process and spawns a child of its own when uxplay.exe exists.
DelayedStart2 ==
    /\ inst2.pc = "tray"
    /\ inst2.sched
    /\ inst2' = [inst2 EXCEPT !.sched = FALSE, !.child = exeExists]
    /\ UNCHANGED <<process, alive, spawned, exeExists, pc, op, h, pending, out,
                   fx, snap, lastCall, app, nops, failed, argFile, cmd, reg,
                   hist>>

\* The menu of the second launch is shown: `checked` calls is_enabled().
MenuShown2 ==
    /\ inst2.pc = "tray"
    /\ ~inst2.regread
    /\ inst2' = [inst2 EXCEPT !.regread = TRUE]
    /\ UNCHANGED <<process, alive, spawned, exeExists, pc, op, h, pending, out,
                   fx, snap, lastCall, app, nops, failed, argFile, cmd, reg,
                   hist>>

Second ==
    \/ Launch2
    \/ CreateMutex2
    \/ Guard2
    \/ Dialog2
    \/ Construct2
    \/ Run2
    \/ DelayedStart2
    \/ MenuShown2

----
\* One statement of start() runs on thread t.
StartStep(t) ==
    \/ StartCheck(t)
    \/ StartPoll(t)
    \/ StartExists(t)
    \/ StartRead(t)
    \/ StartPopen(t)
    \/ StartAssign(t)
    \/ StartRet(t)

\* One statement of stop() runs on thread t.
StopStep(t) ==
    \/ StopCheck(t)
    \/ StopPoll(t)
    \/ StopTerm(t)
    \/ StopWait(t)
    \/ StopKill(t)
    \/ StopKillWait(t)
    \/ StopFinally(t)
    \/ StopRet(t)

\* One statement of _open_args runs on thread t.
EditArgsStep(t) ==
    \/ EnsureCheck(t)
    \/ EnsureWrite(t)
    \/ OpenFile(t)

\* One statement of the handler thread t runs.
Step(t) ==
    \/ StartStep(t)
    \/ StopStep(t)
    \/ Unwind(t)
    \/ IconStop(t)

Environment == ChildExit \/ ExeChange \/ AppExit

\* No other thread is inside a handler.
Quiet(t) == \A u \in Threads \ {t} : pc[u] \in RestPcs

Next ==
    \/ MenuStart
    \/ MenuStop
    \/ MenuRestart
    \/ MenuExit
    \/ DelayedStart
    \/ \E t \in Threads : Step(t)
    \/ Environment

\* The menu thread and the background thread interleave freely.
Spec == Init /\ [][Next]_vars

NextSeq ==
    \/ Quiet("menu") /\ (MenuStart \/ MenuStop \/ MenuRestart \/ MenuExit)
    \/ Quiet("bg") /\ DelayedStart
    \/ \E t \in Threads : Quiet(t) /\ Step(t)
    \/ Environment

\* The calls of start() and stop() are issued one at a time.
SpecSeq == Init /\ [][NextSeq]_vars

NextAuto ==
    \/ MenuChecked
    \/ MenuToggle
    \/ CallEnable
    \/ CallDisable
    \/ IsEnabledRead("menu")
    \/ Enable("menu")
    \/ Disable("menu")
    \/ RegEdit

\* The calls of AutoStartManager and the edits of the registry value.
SpecAuto == Init /\ [][NextAuto]_vars

NextGuard ==
    \/ NextSeq
    \/ Second

\* The first instance, its calls issued one at a time, and a second launch.
SpecGuard == Init /\ [][NextGuard]_vars

\* The argument file: starts, the editor and the user's edits, one handler
\* at a time.
NextArgs ==
    \/ Quiet("menu") /\ MenuStart
    \/ Quiet("menu") /\ MenuEditArgs
    \/ Quiet("bg") /\ DelayedStart
    \/ \E t \in Threads : Quiet(t) /\ StartStep(t)
    \/ \E t \in Threads : Quiet(t) /\ EditArgsStep(t)
    \/ \E t \in Threads : Quiet(t) /\ Unwind(t)
    \/ EditFile
    \/ DeleteFile
    \/ ChildExit

SpecArgs == Init /\ [][NextArgs]_vars

TypeOK ==
    /\ process \in 0..MaxProcs
    /\ alive \subseteq 1..spawned
    /\ spawned \in 0..MaxProcs
    /\ pc \in [Threads -> StartPcs \cup StopPcs \cup RestPcs \cup AutoPcs
                              \cup {"icon_stop", "ens_check", "ens_write",
                                    "open_file"}]
    /\ app \in {"running", "icon_stopped", "terminated"}
    /\ failed \subseteq 1..spawned
    /\ argFile.exists \in BOOLEAN
    /\ reg \in RegStates
    /\ Len(hist) <= nops
    /\ inst2.pc \in {"none", "mutex", "guard", "dialog", "exited", "construct",
                     "run", "tray"}

----
\* Properties

\* No thread is inside start() or stop().
NoCallRunning == \A t \in Threads : pc[t] \in RestPcs

\* C1: between calls of start(), stop() and restart issued one at a time, at
\* most one child spawned by the supervisor is alive, and a live child is the
\* one ServerManager.process references.
C1_AtMostOneTrackedChild ==
    NoCallRunning =>
        /\ Cardinality(alive) <= 1
        /\ \A p \in alive : process = p

\* Only the delayed start and at most one Start selection have run.
OnlyStarts == nops <= 1 /\ op["menu"] \in {"none", "start"}

\* C2: when the delayed start() overlaps a Start selected from the menu, the
\* liveness check makes the duplicate a no-op: never two children alive at
\* once (so the second call spawns nothing while the first child lives).
C2_DuplicateStartHarmless ==
    OnlyStarts => Cardinality(alive) <= 1

\* start() is about to return and the call before it was a start() that
\* spawned a child.
SecondStartReturns(t) ==
    /\ pc[t] = "start_ret"
    /\ snap[t].prev.kind = "start"
    /\ snap[t].prev.out = "spawned"

\* What a refused duplicate start() leaves: a warning, no spawn, the first
\* child still the tracked one.
DuplicateRefused(t) ==
    /\ out[t] = "warned"
    /\ fx[t].warn
    /\ ~fx[t].spawn
    /\ process = snap[t].prev.pid

\* C3 as stated: start() twice in a row, the first spawn having succeeded,
\* leaves the first child tracked, spawns nothing and warns.
C3_SecondStartWarns ==
    \A t \in Threads : SecondStartReturns(t) => DuplicateRefused(t)

\* C3 amended: start() twice in a row, the first spawn having succeeded and
\* the first child still being alive, leaves the first child tracked, spawns
\* nothing and warns.
C3_SecondStartWarnsIfAlive ==
    \A t \in Threads :
        (SecondStartReturns(t) /\ Running(snap[t].prev.pid)) => DuplicateRefused(t)

C3_Witness ==
    \E t \in Threads :
        /\ SecondStartReturns(t)
        /\ Running(snap[t].prev.pid)
        /\ out[t] = "warned"

\* stop() is returning, normally or with an exception.
StopReturns(t) == pc[t] \in {"stop_ret", "stop_raised"}

\* C4 as stated: whenever stop() returns, ServerManager.process is None.
C4_StopClears ==
    \A t \in Threads : StopReturns(t) => process = None

\* C4 amended: whenever stop() returns no live process is tracked:
\* ServerManager.process is None on every path past the liveness check, and
\* when the tracked process had already exited on its own stop() returns
\* without touching the attribute, which still holds the exited handle.
C4_StopLeavesNoLiveTracked ==
    \A t \in Threads :
        StopReturns(t) =>
            IF out[t] = "notrunning"
            THEN process = snap[t].proc /\ ~TrackedAlive
            ELSE process = None

C4_Witness ==
    \E t \in Threads :
        /\ pc[t] = "stop_ret"
        /\ out[t] = "forced"
        /\ snap[t].proc # None
        /\ process = None

\* C5: stop() with nothing tracked is a no-op: it does not raise, requests no
\* terminate or kill, shows no popup and leaves ServerManager.process as it
\* was.
C5_StopUntrackedNoop ==
    \A t \in Threads :
        (pc[t] \in StopPcs /\ snap[t].proc = None) =>
            /\ pc[t] \in {"stop_check", "stop_ret"}
            /\ pc[t] = "stop_ret" => out[t] = "notrunning"
            /\ fx[t] = NoFx
            /\ ~pending[t]
            /\ process = None

C5_Witness ==
    \E t \in Threads :
        /\ pc[t] = "stop_ret"
        /\ snap[t].proc = None
        /\ out[t] = "notrunning"

\* The order of the requests inside one stop() call.
StopOrder(t) ==
    /\ pc[t] \in {"stop_wait", "stop_kill", "stop_killwait"} => fx[t].term
    /\ fx[t].kill => fx[t].term
    /\ out[t] = "forced" => fx[t].kill
    /\ out[t] = "clean" => fx[t].term /\ ~fx[t].kill
    /\ (pc[t] = "stop_ret" /\ out[t] \in {"clean", "forced"}) =>
            /\ process = None
            /\ snap[t].proc # None
            /\ ~Running(snap[t].proc)

\* The steps around the grace period of one stop() call.
StopEscalation(t) ==
    \* the kill is reached only from the bounded wait, the child still alive
    /\ (pc[t] # "stop_kill" /\ pc'[t] = "stop_kill") =>
            pc[t] = "stop_wait" /\ Running(process)
    \* the bounded wait ends without an exception: clean iff the child exited
    /\ (pc[t] = "stop_wait" /\ pc'[t] # "stop_wait" /\ ~fx'[t].err) =>
            IF Running(process) THEN pc'[t] = "stop_kill"
            ELSE pc'[t] = "stop_finally" /\ out'[t] = "clean"
    \* after the timeout the kill is issued, and a kill that returns is
    \* followed by the wait
    /\ (pc[t] = "stop_kill" /\ pc'[t] # "stop_kill") =>
            \/ fx'[t].kill /\ pc'[t] = "stop_killwait"
            \/ pending'[t]
    \* the wait returns only when the child has exited
    /\ (pc[t] = "stop_killwait" /\ pc'[t] # "stop_killwait" /\ ~pending'[t]) =>
            ~Running(process) /\ out'[t] = "forced"

\* C6: stop() on a live tracked process requests graceful termination first;
\* the kill is issued only if the child has not exited when the grace period
\* elapses, then it is always issued and followed by a wait for exit; in the
\* graceful and in the forceful path the child is dead and the reference
\* cleared when stop() returns.
C6_GracefulThenForced ==
    /\ [](\A t \in Threads : StopOrder(t))
    /\ [][\A t \in Threads : StopEscalation(t)]_vars

C6_Witness ==
    \E t \in Threads :
        /\ pc[t] = "stop_ret"
        /\ out[t] = "forced"
        /\ fx[t].term /\ fx[t].kill
        /\ ~Running(snap[t].proc)

\* What start() has done when it returns for a missing executable.
MissingExeReturn(t) ==
    (pc[t] = "start_ret" /\ out[t] = "missing") =>
        /\ fx[t].err
        /\ ~fx[t].spawn /\ h[t] = None
        /\ ~fx[t].read
        /\ ~fx[t].warn
        /\ process = snap[t].proc

\* start() finds no tracked live process and the executable missing.
MissingExeStep(t) ==
    (pc[t] = "start_exists" /\ pc'[t] # "start_exists" /\ ~exeExists) =>
        /\ pc'[t] = "start_ret" /\ out'[t] = "missing"
        /\ fx'[t].err
        /\ process' = process /\ spawned' = spawned /\ alive' = alive

\* C7: start() with no tracked live process and the executable missing shows
\* an error, spawns nothing, does not read the argument file and leaves
\* ServerManager.process as it was before the call.
C7_MissingExeAborts ==
    /\ [](\A t \in Threads : MissingExeReturn(t))
    /\ [][\A t \in Threads : MissingExeStep(t)]_vars

C7_Witness ==
    \E t \in Threads :
        /\ pc[t] = "start_ret"
        /\ out[t] = "missing"
        /\ fx[t].err
        /\ ~exeExists

\* start() is about to return after Popen raised.
SpawnFailed(t) == pc[t] = "start_ret" /\ out[t] = "spawnfail"

\* C8 as stated: after a failed spawn the error is shown, start() returns
\* normally and ServerManager.process is None.
C8_SpawnFailureResets ==
    \A t \in Threads : SpawnFailed(t) => fx[t].err /\ process = None

\* C8 amended: after a failed spawn the error is shown, start() returns
\* normally and ServerManager.process is as it was before the call: None, or
\* still the handle of an earlier process that exited on its own; in both
\* cases no live process is tracked.
C8_SpawnFailureKeepsState ==
    \A t \in Threads :
        SpawnFailed(t) =>
            /\ fx[t].err
            /\ ~fx[t].spawn
            /\ process = snap[t].proc
            /\ ~TrackedAlive

C8_Witness ==
    \E t \in Threads :
        /\ SpawnFailed(t)
        /\ snap[t].proc # None
        /\ process = snap[t].proc

\* C9: no exception escapes stop(): every exception raised while terminating
\* (terminate, wait, kill, wait) is reported to the user.
C9_NoExceptionEscapesStop ==
    \A t \in Threads :
        /\ pc[t] # "stop_raised"
        /\ pending[t] => fx[t].err

\* C10: on Exit, icon.stop() happens only after server_mgr.stop() has
\* returned, and it is always reached: the icon is not stopped while the Exit
\* handler is inside stop(), and it is stopped when the handler has ended.
C10_ExitStopsIconAfterStop ==
    /\ (op["menu"] = "exit" /\ pc["menu"] \in StopPcs) => app = "running"
    /\ app # "running" => op["menu"] = "exit" /\ pc["menu"] = "idle"
    /\ (op["menu"] = "exit" /\ pc["menu"] = "idle") => app # "running"

\* ensure_exists has returned on thread t.
EnsureDone(t) == pc[t] = "open_file"

\* C15: ensure_exists is idempotent and never alters existing content: an
\* absent argument file is created empty, an existing one (user-edited
\* content included) is left as it is, so a second call changes nothing.
C15_EnsureExistsIdempotent ==
    \A t \in Threads :
        EnsureDone(t) =>
            /\ argFile.exists
            /\ snap[t].file.exists => argFile = snap[t].file
            /\ ~snap[t].file.exists => argFile = EmptyFile

C15_Witness ==
    \E t \in Threads :
        /\ EnsureDone(t)
        /\ snap[t].file.exists
        /\ snap[t].file.text # <<>>
        /\ argFile = snap[t].file

\* start() has read the argument file and goes on to Popen.
ArgsRead(t) == pc[t] \in {"start_popen", "start_assign", "start_ret"} /\ fx[t].read

\* The argument file is absent or holds only whitespace.
Blank(f) == ~f.exists \/ (f.utf8 /\ Strip(f.text) = <<>>)

\* The argument file holds an unclosed quotation or ends in a backslash.
Malformed(f) == f.exists /\ f.utf8 /\ Strip(f.text) # <<>> /\ ~ShlexSplit(Strip(f.text)).ok

\* C16: read_args never raises to start(): it returns no tokens for an
\* absent or blank file, and for a file that cannot be tokenized it shows
\* the error and returns no tokens, so start() still spawns the executable
\* with no extra arguments.
C16_ReadArgsNeverRaises ==
    \A t \in Threads :
        /\ pc[t] # "start_raised"
        /\ (ArgsRead(t) /\ Blank(argFile)) => cmd[t] = ExePath /\ ~fx[t].parse
        /\ (ArgsRead(t) /\ Malformed(argFile)) => cmd[t] = ExePath /\ fx[t].parse

\* C17: every spawn uses the executable path followed, in order, by the
\* tokens of the argument file as it is at that start() call; an edit made
\* between two starts shows in the second spawn.
C17_SpawnUsesFreshArgs ==
    \A t \in Threads :
        (pc[t] \in StartPcs /\ fx[t].spawn) =>
            /\ cmd[t] = ExePath \o ReadArgs(argFile).toks
            /\ argFile.text = <<"a", " ", "a">> => cmd[t] = <<"uxplay.exe", <<"a">>, <<"a">>>>
            /\ argFile.text = <<"\"", " ", "\"">> => cmd[t] = <<"uxplay.exe", <<" ">>>>

C17_Witness ==
    \E t \in Threads :
        /\ pc[t] = "start_ret"
        /\ fx[t].spawn
        /\ snap[t].prev.kind = "start"
        /\ snap[t].prev.out = "spawned"
        /\ snap[t].prev.argc = 1
        /\ Len(cmd[t]) = 3

\* TrayIcon._restart has returned from stop(), which found a live tracked
\* process, and from start().
RestartDone(t) ==
    /\ op[t] = "restart"
    /\ pc[t] = "start_ret"
    /\ snap[t].prev.kind = "stop"
    /\ snap[t].prev.out # "notrunning"

\* C18: restart is stop() then start(): with a live tracked process, when
\* the spawn succeeds the previous process is dead, the newly spawned one is
\* the tracked one and no warning was shown; when the executable is missing
\* no process is tracked.
C18_RestartReplacesChild ==
    \A t \in Threads :
        RestartDone(t) =>
            /\ ~fx[t].warn
            /\ out[t] = "spawned" =>
                   /\ ~Running(snap[t].prev.pid)
                   /\ process = h[t]
                   /\ h[t] \notin {None, snap[t].prev.pid}
            /\ out[t] = "missing" => process = None

\* Child p is referenced by ServerManager.process, or Popen has just
\* returned it and the assignment is the caller's next step.
Tracked(p) ==
    \/ process = p
    \/ \E t \in Threads : pc[t] = "start_assign" /\ h[t] = p

\* Thread t executes the finally clause of stop().
StopClears(t) == pc[t] = "stop_finally" /\ pc'[t] # "stop_finally"

\* C19: no orphaned child under any interleaving of the delayed start()
\* with a stop() or restart from the menu: stop()'s final clearing of the
\* reference never discards the handle of a live child, so a live child
\* that was referenced by ServerManager.process before the clearing is
\* still referenced after it (when no terminate, wait or kill has failed).
C19_NoOrphanedChild ==
    [][\A t \in Threads :
          (StopClears(t) /\ failed' = {}) =>
              \A p \in alive' : Tracked(p) => Tracked(p)']_vars

\* C20: once Exit was selected and the application has shut down, no child
\* it spawned is alive, except one that stop() failed to terminate.
C20_NoChildAfterExit == app = "terminated" => alive \subseteq failed

\* The last call of AutoStartManager was is_enabled() and it has returned.
Checked == hist # <<>> /\ hist[Len(hist)].call = "checked" /\ hist[Len(hist)].done

\* The stored string is exe_cmd with text before or after it.
Extends(v) == \E a, b \in RegTexts : v = a \o ExeCmd \o b

\* C12: is_enabled() returns false when there is no registration, true when
\* the stored value contains the expected launch command, false when the
\* value is unrelated, and false when the read fails otherwise.
C12_IsEnabledCases ==
    Checked =>
        LET r == hist[Len(hist)] IN
        /\ ~reg.exists => ~r.res
        /\ (reg.exists /\ reg.str /\ Extends(reg.val) /\ ~r.fail) => r.res
        /\ (reg.exists /\ reg.str /\ ~Extends(reg.val)) => ~r.res
        /\ (reg = [exists |-> TRUE, str |-> TRUE, val |-> <<"x", "u">>]) => ~r.res
        /\ r.fail => ~r.res

C12_Witness ==
    /\ Checked
    /\ reg = [exists |-> TRUE, str |-> TRUE, val |-> <<"u", "x", "x">>]
    /\ hist[Len(hist)].res

\* C13: the boolean shown by the menu is true exactly when the registration
\* exists and its stored value equals the expected launch command; a value
\* that extends the command with more text is not enabled.
C13_EnabledIffExactMatch ==
    (Checked /\ ~hist[Len(hist)].fail) =>
        (hist[Len(hist)].res <=> (reg.exists /\ reg.str /\ reg.val = ExeCmd))

\* C13 as the code has it: true exactly when the registration exists, is
\* read as a string without error and contains the expected launch command.
C13_EnabledIffContains ==
    Checked =>
        (hist[Len(hist)].res <=>
            (~hist[Len(hist)].fail /\ reg.exists /\ reg.str /\ Extends(reg.val)))

C13_Witness ==
    /\ Checked
    /\ reg = [exists |-> TRUE, str |-> TRUE, val |-> <<"x", "u", "x">>]
    /\ hist[Len(hist)].res
    /\ ~hist[Len(hist)].fail

\* Call i of the history is a finished toggle().
Toggled(i) == hist[i].call = "toggle" /\ hist[i].done

C11_SecondInstanceRefused ==
    (inst2.active /\ inst2.pc # "mutex") =>
        /\ inst2.pc \in {"guard", "dialog", "exited"}
        /\ inst2.pc = "exited" => inst2.code = 1
        /\ ~inst2.sched /\ ~inst2.child /\ ~inst2.regread
====
